---- MODULE Spec2Model ----
(***************************************************************************)
(* Model of the two proxy checkers of this repository:                     *)
(*   proxy.py   check_proxy_simple   + main (pool of 30 workers)           *)
(*   proxy2.py  check_proxy_thorough + main (pool of 10 workers)           *)
(* Text (file contents, lines, proxy addresses) is a sequence of           *)
(* one-character strings, so that reading, stripping and writing are       *)
(* computed as the code computes them.                                     *)
(***************************************************************************)
EXTENDS Integers, Sequences, FiniteSets, Bags, TLC

VARIABLES
  prog,             \* which script runs: "simple" (proxy.py) or "thorough" (proxy2.py)
  infile,           \* the input file: [exists, text]
  outfile,          \* the output file: [exists, text]
  net,              \* the network: for each proxy address, the outcome of the probe of each test URL
  pc,               \* position of main()
  err,              \* the exception that ended main(), "None" if none
  proxies,          \* main: proxies
  total,            \* main: total
  future_to_proxy,  \* main: future_to_proxy, future k |-> proxy
  queue,            \* executor: submitted work items no worker has taken yet (FIFO)
  running,          \* executor: bag of the proxies whose check is executing in a worker
  finished,         \* executor: bag of the results of completed futures not yet yielded by as_completed
  working_proxies,  \* main: working_proxies
  progress,         \* main: i+1 of the last progress line written, 0 before the first
  checked,          \* history: bag of the proxies a check was started for
  collected,        \* history: bag of the proxies whose future.result() was taken
  ck_proxy,         \* single call: the proxy argument
  ck_out,           \* single call: outcome of the probe of each test URL
  ck_st             \* single call: state of the check function

vars == <<prog, infile, outfile, net, pc, err, proxies, total, future_to_proxy,
          queue, running, finished, working_proxies, progress, checked,
          collected, ck_proxy, ck_out, ck_st>>

poolvars == <<infile, outfile, net, pc, err, proxies, total, future_to_proxy,
              queue, running, finished, working_proxies, progress, checked,
              collected>>

-----------------------------------------------------------------------------
(* Bounds of the model *)

\* the input file of Spec has at most MaxLines lines
MaxLines == 3

\* the input file of SpecLoad has at most MaxLoad lines, all the same proxy
MaxLoad == 31

-----------------------------------------------------------------------------
(* Text *)

NL == "\n"

Whitespace == {" ", NL}

RECURSIVE lstrip(_)
lstrip(s) ==
  IF s # <<>> /\ Head(s) \in Whitespace THEN lstrip(Tail(s)) ELSE s

RECURSIVE rstrip(_)
rstrip(s) ==
  IF s # <<>> /\ s[Len(s)] \in Whitespace
    THEN rstrip(SubSeq(s, 1, Len(s) - 1))
    ELSE s

\* str.strip()
strip(s) == rstrip(lstrip(s))

\* iteration over a text file: the lines, each with its newline, the last
\* one without when the text does not end in a newline
RECURSIVE readlines(_, _)
readlines(text, cur) ==
  IF text = <<>>
    THEN IF cur = <<>> THEN <<>> ELSE <<cur>>
    ELSE IF Head(text) = NL
           THEN <<Append(cur, NL)>> \o readlines(Tail(text), <<>>)
           ELSE readlines(Tail(text), Append(cur, Head(text)))

\* [line.strip() for line in f if line.strip()]
RECURSIVE stripped_nonblank(_)
stripped_nonblank(lines) ==
  IF lines = <<>> THEN <<>>
  ELSE IF strip(Head(lines)) # <<>>
         THEN <<strip(Head(lines))>> \o stripped_nonblank(Tail(lines))
         ELSE stripped_nonblank(Tail(lines))

load_proxies(text) == stripped_nonblank(readlines(text, <<>>))

\* a writer that leaves out the newline
RECURSIVE write_proxies_joined(_)
write_proxies_joined(ps) ==
  IF ps = <<>> THEN <<>> ELSE Head(ps) \o write_proxies_joined(Tail(ps))

\* for proxy in working_proxies: f.write(proxy + "\n")
RECURSIVE write_proxies(_)
write_proxies(ps) ==
  IF ps = <<>> THEN <<>> ELSE Head(ps) \o <<NL>> \o write_proxies(Tail(ps))

RECURSIVE SeqToBag(_)
SeqToBag(s) ==
  IF s = <<>> THEN EmptyBag ELSE SetToBag({Head(s)}) (+) SeqToBag(Tail(s))

Range(s) == {s[i] : i \in 1..Len(s)}

-----------------------------------------------------------------------------
(* urllib.parse.urlparse(proxy), as far as it decides whether the call       *)
(* raises: a netloc is split off when the address starts with "//" (none of  *)
(* the modelled characters forms a scheme), it ends at the next "/", and an  *)
(* unbalanced "[" or "]" in it raises ValueError("Invalid IPv6 URL").        *)

RECURSIVE upto_slash(_)
upto_slash(s) ==
  IF s = <<>> \/ Head(s) = "/" THEN <<>> ELSE <<Head(s)>> \o upto_slash(Tail(s))

netloc(url) ==
  IF Len(url) >= 2 /\ url[1] = "/" /\ url[2] = "/"
    THEN upto_slash(SubSeq(url, 3, Len(url)))
    ELSE <<>>

urlparse_raises(proxy) ==
  LET n == netloc(lstrip(proxy))
  IN  \/ ("[" \in Range(n) /\ "]" \notin Range(n))
      \/ ("]" \in Range(n) /\ "[" \notin Range(n))

-----------------------------------------------------------------------------
(* Probe outcomes: what requests.get(url, proxies=...) does *)

NoExc == "None"

\* the exception classes a probe is modelled to raise, each with the classes
\* it is an instance of (requests.exceptions; ValueError stands for any
\* exception outside the requests hierarchy)
Ancestors(exc) ==
  CASE exc = "ConnectTimeout"  -> {"ConnectTimeout", "ConnectionError", "Timeout", "RequestException", "Exception"}
    [] exc = "ProxyError"      -> {"ProxyError", "ConnectionError", "RequestException", "Exception"}
    [] exc = "SSLError"        -> {"SSLError", "ConnectionError", "RequestException", "Exception"}
    [] exc = "ConnectionError" -> {"ConnectionError", "RequestException", "Exception"}
    [] exc = "ReadTimeout"     -> {"ReadTimeout", "Timeout", "RequestException", "Exception"}
    [] exc = "ValueError"      -> {"ValueError", "Exception"}
    [] OTHER                   -> {}

ExcKinds == {"ConnectTimeout", "ProxyError", "SSLError", "ConnectionError", "ReadTimeout", "ValueError"}

StatusCodes == {"200", "404"}

Response(code) == [status |-> code, exc |-> NoExc]

Raises(e) == [status |-> "", exc |-> e]

Outcomes == {Response(c) : c \in StatusCodes} \cup {Raises(e) : e \in ExcKinds}

\* the index of the first except clause that catches exc, 0 when none does
RECURSIVE catch_from(_, _, _)
catch_from(handlers, exc, i) ==
  IF i > Len(handlers) THEN 0
  ELSE IF handlers[i] \in Ancestors(exc) THEN i
  ELSE catch_from(handlers, exc, i + 1)

catch(handlers, exc) == catch_from(handlers, exc, 1)

-----------------------------------------------------------------------------
(* The check functions. A call is a record: idx is the test URL the loop is *)
(* at, phase is "loop" inside the loop, "returned" after a return and       *)
(* "raised" when an exception left the function; requests counts the        *)
(* requests.get calls made.                                                 *)

Idle == [proxy |-> <<>>, idx |-> 0, phase |-> "idle", is_working |-> FALSE,
         requests |-> 0, passed |-> 0, failed |-> 0, errors |-> <<>>]

\* proxy.py, test_urls
test_urls == <<"http://httpbin.org/ip", "https://api.ipify.org?format=json",
               "http://icanhazip.com", "https://checkip.amazonaws.com">>

\* the catch-all clause placed first
simple_handlers_catchall_first == <<"Exception", "ConnectTimeout", "ConnectionError", "ProxyError">>

\* proxy.py, the except clauses of check_proxy_simple in order
simple_handlers == <<"ConnectTimeout", "ConnectionError", "ProxyError", "Exception">>

\* proxy.py, entry of check_proxy_simple up to the loop
simple_begin(proxy) ==
  [Idle EXCEPT !.proxy = proxy, !.idx = 1, !.phase = "loop"]

\* the for statement moves to the next URL; after the last one line 55 returns False
simple_next(st) ==
  IF st.idx = Len(test_urls)
    THEN [st EXCEPT !.phase = "returned", !.is_working = FALSE]
    ELSE [st EXCEPT !.idx = st.idx + 1]

\* proxy.py, one iteration of the loop of check_proxy_simple, o the outcome of requests.get
simple_iter(st, o) ==
  LET s1 == [st EXCEPT !.requests = st.requests + 1]
      c  == catch(simple_handlers, o.exc)
  IN  IF o.exc = NoExc
        THEN IF o.status = "200"
               THEN [s1 EXCEPT !.phase = "returned", !.is_working = TRUE]
               ELSE simple_next(s1)
        ELSE CASE c = 0        -> [s1 EXCEPT !.phase = "raised"]
               [] c \in {1, 2, 3} -> [s1 EXCEPT !.phase = "returned", !.is_working = FALSE]
               [] OTHER        -> simple_next(s1)

\* proxy2.py, test_sites: the URLs and the names
test_sites == << <<"https://www.google.com", "Google">>,
                 <<"https://www.wikipedia.org", "Wikipedia">>,
                 <<"http://example.com", "Example.com">> >>

\* proxy2.py, the except clauses of check_proxy_thorough in order
thorough_handlers == <<"SSLError", "ProxyError", "ConnectTimeout", "ConnectionError", "Exception">>

\* proxy2.py, the message each except clause records
thorough_message(c, exc) ==
  CASE c = 1 -> <<"SSL Error">>
    [] c = 2 -> <<"Proxy Error">>
    [] c = 3 -> <<"Timeout">>
    [] c = 4 -> <<"Connection Failed">>
    [] OTHER -> <<exc>>

\* proxy2.py, entry of check_proxy_thorough up to the loop: urlparse(proxy) is outside any try
thorough_begin(proxy) ==
  IF urlparse_raises(proxy)
    THEN [Idle EXCEPT !.proxy = proxy, !.phase = "raised"]
    ELSE [Idle EXCEPT !.proxy = proxy, !.idx = 1, !.phase = "loop"]

\* a proxy counted as working when any site passed
thorough_end_any(st) ==
  [st EXCEPT !.phase = "returned", !.is_working = (st.passed > 0)]

\* proxy2.py, after the loop: is_working and the return
thorough_end(st) ==
  [st EXCEPT !.phase = "returned",
             !.is_working = (st.passed = Len(test_sites) /\ st.failed = 0)]

thorough_next(st) ==
  IF st.idx = Len(test_sites) THEN thorough_end(st) ELSE [st EXCEPT !.idx = st.idx + 1]

thorough_fail(st, msg) ==
  [st EXCEPT !.failed = st.failed + 1,
             !.errors = Append(st.errors, <<test_sites[st.idx][2]>> \o msg)]

\* proxy2.py, one iteration of the loop of check_proxy_thorough
thorough_iter(st, o) ==
  LET s1 == [st EXCEPT !.requests = st.requests + 1]
      c  == catch(thorough_handlers, o.exc)
  IN  IF o.exc = NoExc
        THEN IF o.status = "200"
               THEN thorough_next([s1 EXCEPT !.passed = s1.passed + 1])
               ELSE thorough_next(thorough_fail(s1, <<"Status", o.status>>))
        ELSE IF c = 0
               THEN [s1 EXCEPT !.phase = "raised"]
               ELSE thorough_next(thorough_fail(s1, thorough_message(c, o.exc)))

NumUrls(p) == IF p = "simple" THEN Len(test_urls) ELSE Len(test_sites)

check_begin(p, proxy) ==
  IF p = "simple" THEN simple_begin(proxy) ELSE thorough_begin(proxy)

check_iter(p, st, o) ==
  IF p = "simple" THEN simple_iter(st, o) ELSE thorough_iter(st, o)

\* a whole call: the loop run to its end against the outcomes out
RECURSIVE check_run(_, _, _)
check_run(p, st, out) ==
  IF st.phase = "loop" THEN check_run(p, check_iter(p, st, out[st.idx]), out) ELSE st

check_proxy(p, proxy, out) == check_run(p, check_begin(p, proxy), out)

-----------------------------------------------------------------------------
(* main() and the executor *)

\* proxy.py: ThreadPoolExecutor(max_workers=30)
simple_max_workers == 30

\* proxy2.py: ThreadPoolExecutor(max_workers=10)
thorough_max_workers == 10

max_workers(p) == IF p = "simple" THEN simple_max_workers ELSE thorough_max_workers

\* what future.result() gives for a finished call: the returned tuple, or the exception re-raised
Result(st) ==
  [raised |-> st.phase = "raised", is_working |-> st.is_working, proxy |-> st.proxy]

NoFile == [exists |-> FALSE, text |-> <<>>]

File(t) == [exists |-> TRUE, text |-> t]

\* open(<input>) and the list comprehension; FileNotFoundError prints and goes to the prompt
Load ==
  /\ pc = "start"
  /\ IF infile.exists
       THEN /\ proxies' = load_proxies(infile.text)
            /\ total' = Len(load_proxies(infile.text))
            /\ pc' = "submit"
       ELSE /\ pc' = "missing"
            /\ UNCHANGED <<proxies, total>>
  /\ UNCHANGED <<prog, infile, outfile, net, err, future_to_proxy, queue, running,
                 finished, working_proxies, progress, checked, collected,
                 ck_proxy, ck_out, ck_st>>

\* input("Press Enter to exit...") and return, after FileNotFoundError
MissingPrompt ==
  /\ pc = "missing"
  /\ pc' = "done"
  /\ UNCHANGED <<prog, infile, outfile, net, err, proxies, total, future_to_proxy,
                 queue, running, finished, working_proxies, progress, checked,
                 collected, ck_proxy, ck_out, ck_st>>

\* executor.submit(check, proxy) for the next proxy of the dict comprehension
Submit ==
  /\ pc = "submit"
  /\ Len(future_to_proxy) < Len(proxies)
  /\ future_to_proxy' = Append(future_to_proxy, proxies[Len(future_to_proxy) + 1])
  /\ queue' = Append(queue, proxies[Len(future_to_proxy) + 1])
  /\ UNCHANGED <<prog, infile, outfile, net, pc, err, proxies, total, running,
                 finished, working_proxies, progress, checked, collected,
                 ck_proxy, ck_out, ck_st>>

\* the dict comprehension is complete; as_completed(future_to_proxy) starts
SubmitDone ==
  /\ pc = "submit"
  /\ Len(future_to_proxy) = Len(proxies)
  /\ pc' = "collect"
  /\ UNCHANGED <<prog, infile, outfile, net, err, proxies, total, future_to_proxy,
                 queue, running, finished, working_proxies, progress, checked,
                 collected, ck_proxy, ck_out, ck_st>>

\* a pool that starts a thread for every submitted call
WorkerStartUnbounded ==
  /\ queue # <<>>
  /\ running' = running (+) SetToBag({Head(queue)})
  /\ checked' = checked (+) SetToBag({Head(queue)})
  /\ queue' = Tail(queue)
  /\ UNCHANGED <<prog, infile, outfile, net, pc, err, proxies, total, future_to_proxy,
                 finished, working_proxies, progress, collected, ck_proxy, ck_out, ck_st>>

\* a worker of the pool takes the oldest work item; at most max_workers run
WorkerStart ==
  /\ queue # <<>>
  /\ BagCardinality(running) < max_workers(prog)
  /\ running' = running (+) SetToBag({Head(queue)})
  /\ checked' = checked (+) SetToBag({Head(queue)})
  /\ queue' = Tail(queue)
  /\ UNCHANGED <<prog, infile, outfile, net, pc, err, proxies, total, future_to_proxy,
                 finished, working_proxies, progress, collected, ck_proxy, ck_out, ck_st>>

\* a worker's call of the check function ends; its future is done
WorkerFinish ==
  \E p \in BagToSet(running) :
    /\ running' = running (-) SetToBag({p})
    /\ finished' = finished (+) SetToBag({Result(check_proxy(prog, p, net[p]))})
    /\ UNCHANGED <<prog, infile, outfile, net, pc, err, proxies, total, future_to_proxy,
                   queue, working_proxies, progress, checked, collected,
                   ck_proxy, ck_out, ck_st>>

\* one iteration of the as_completed loop: future.result(), the append, the progress line
Collect ==
  /\ pc = "collect"
  /\ progress < Len(future_to_proxy)
  /\ \E r \in BagToSet(finished) :
       /\ finished' = finished (-) SetToBag({r})
       /\ IF r.raised
            THEN /\ pc' = "aborting"
                 /\ err' = "ValueError"
                 /\ UNCHANGED <<working_proxies, progress, collected>>
            ELSE /\ collected' = collected (+) SetToBag({r.proxy})
                 /\ working_proxies' =
                      IF r.is_working THEN Append(working_proxies, r.proxy) ELSE working_proxies
                 /\ progress' = progress + 1
                 /\ UNCHANGED <<pc, err>>
  /\ UNCHANGED <<prog, infile, outfile, net, proxies, total, future_to_proxy, queue,
                 running, checked, ck_proxy, ck_out, ck_st>>

\* as_completed has yielded every future
CollectDone ==
  /\ pc = "collect"
  /\ progress = Len(future_to_proxy)
  /\ pc' = "shutdown"
  /\ UNCHANGED <<prog, infile, outfile, net, err, proxies, total, future_to_proxy,
                 queue, running, finished, working_proxies, progress, checked,
                 collected, ck_proxy, ck_out, ck_st>>

\* the end of the with block: shutdown(wait=True) waits for every submitted
\* call, then main goes on, or the exception of future.result() ends main
Shutdown ==
  /\ pc \in {"shutdown", "aborting"}
  /\ queue = <<>>
  /\ running = EmptyBag
  /\ pc' = IF pc = "shutdown" THEN "summary" ELSE "crashed"
  /\ UNCHANGED <<prog, infile, outfile, net, err, proxies, total, future_to_proxy,
                 queue, running, finished, working_proxies, progress, checked,
                 collected, ck_proxy, ck_out, ck_st>>

\* the RESULTS block: len(working_proxies)/total*100 divides by total
Summary ==
  /\ pc = "summary"
  /\ IF total = 0
       THEN pc' = "crashed" /\ err' = "ZeroDivisionError"
       ELSE pc' = "save" /\ err' = err
  /\ UNCHANGED <<prog, infile, outfile, net, proxies, total, future_to_proxy, queue,
                 running, finished, working_proxies, progress, checked, collected,
                 ck_proxy, ck_out, ck_st>>

\* if working_proxies: open(<output>, "w") and one write per proxy
Save ==
  /\ pc = "save"
  /\ outfile' = IF working_proxies # <<>> THEN File(write_proxies(working_proxies)) ELSE outfile
  /\ pc' = "prompt"
  /\ UNCHANGED <<prog, infile, net, err, proxies, total, future_to_proxy, queue,
                 running, finished, working_proxies, progress, checked, collected,
                 ck_proxy, ck_out, ck_st>>

\* input("\nPress Enter to exit...") and the end of main
Prompt ==
  /\ pc = "prompt"
  /\ pc' = "done"
  /\ UNCHANGED <<prog, infile, outfile, net, err, proxies, total, future_to_proxy,
                 queue, running, finished, working_proxies, progress, checked,
                 collected, ck_proxy, ck_out, ck_st>>

Next ==
  \/ Load
  \/ MissingPrompt
  \/ Submit
  \/ SubmitDone
  \/ WorkerStart
  \/ WorkerFinish
  \/ Collect
  \/ CollectDone
  \/ Shutdown
  \/ Summary
  \/ Save
  \/ Prompt

-----------------------------------------------------------------------------
(* Initial states *)

ProxyA == <<"a">>

ProxyB == <<"b">>

\* an address urlparse refuses
ProxyBad == <<"/", "/", "[">>

\* the lines an input file is made of, without their newline
LineSet == {<<" ">>, ProxyA, <<" ">> \o ProxyB \o <<" ">>, ProxyBad}

\* the texts of at most n lines, each line ended by a newline
RECURSIVE Texts(_)
Texts(n) ==
  IF n = 0 THEN {<<>>}
  ELSE {<<>>} \cup {l \o <<NL>> \o t : l \in LineSet, t \in Texts(n - 1)}

\* the same, and those whose last line has no newline
InputTexts(n) ==
  Texts(n) \cup (IF n = 0 THEN {} ELSE {t \o ProxyA : t \in Texts(n - 1)})

Uniform(p, o) == [i \in 1..NumUrls(p) |-> o]

\* the answers of the network to the probes through one proxy, in the runs of main
PoolOutcomes(p) ==
  {Uniform(p, o) : o \in {Response("200"), Raises("ConnectTimeout")}}
  \cup {[i \in 1..NumUrls(p) |-> IF i = 1 THEN Raises("ReadTimeout") ELSE Response("200")]}

OldOutput == ProxyB \o <<NL>>

MainStart ==
  /\ pc = "start"
  /\ err = "None"
  /\ proxies = <<>>
  /\ total = 0
  /\ future_to_proxy = <<>>
  /\ queue = <<>>
  /\ running = EmptyBag
  /\ finished = EmptyBag
  /\ working_proxies = <<>>
  /\ progress = 0
  /\ checked = EmptyBag
  /\ collected = EmptyBag
  /\ ck_proxy = <<>>
  /\ ck_out = <<>>
  /\ ck_st = Idle

Init ==
  /\ prog \in {"simple", "thorough"}
  /\ infile \in {NoFile} \cup {File(t) : t \in InputTexts(MaxLines)}
  /\ outfile \in {NoFile, File(OldOutput)}
  /\ net \in [Range(load_proxies(infile.text)) -> PoolOutcomes(prog)]
  /\ MainStart

Spec == Init /\ [][Next]_vars

RECURSIVE Repeat(_, _)
Repeat(t, n) == IF n = 0 THEN <<>> ELSE t \o Repeat(t, n - 1)

\* no input file, or a list of one proxy, repeated, that answers every probe with 200
InitLoad ==
  /\ prog \in {"simple", "thorough"}
  /\ infile \in {NoFile} \cup {File(Repeat(ProxyA \o <<NL>>, n)) : n \in 0..MaxLoad}
  /\ outfile = NoFile
  /\ net = [p \in {ProxyA} |-> Uniform(prog, Response("200"))]
  /\ MainStart

SpecLoad == InitLoad /\ [][Next]_vars

-----------------------------------------------------------------------------
(* One call of a check function, an iteration at a time *)

CheckCall ==
  /\ ck_st.phase = "idle"
  /\ ck_st' = check_begin(prog, ck_proxy)
  /\ UNCHANGED <<prog, ck_proxy, ck_out, poolvars>>

CheckIter ==
  /\ ck_st.phase = "loop"
  /\ ck_st' = check_iter(prog, ck_st, ck_out[ck_st.idx])
  /\ UNCHANGED <<prog, ck_proxy, ck_out, poolvars>>

NextCheck == CheckCall \/ CheckIter

InitCheck ==
  /\ prog \in {"simple", "thorough"}
  /\ ck_proxy \in {ProxyA, ProxyBad}
  /\ ck_out \in [1..NumUrls(prog) -> Outcomes]
  /\ ck_st = Idle
  /\ infile = NoFile
  /\ outfile = NoFile
  /\ net = <<>>
  /\ pc = "off"
  /\ err = "None"
  /\ proxies = <<>>
  /\ total = 0
  /\ future_to_proxy = <<>>
  /\ queue = <<>>
  /\ running = EmptyBag
  /\ finished = EmptyBag
  /\ working_proxies = <<>>
  /\ progress = 0
  /\ checked = EmptyBag
  /\ collected = EmptyBag

SpecCheck == InitCheck /\ [][NextCheck]_vars

-----------------------------------------------------------------------------
(* Properties *)

\* main has left the with block of the pool
AfterPool == pc \in {"summary", "save", "prompt", "done", "crashed"}

Ok(o) == o.exc = NoExc /\ o.status = "200"

\* o is an exception one of the three breaking clauses of check_proxy_simple names
ConnClass(o) ==
  /\ o.exc # NoExc
  /\ Ancestors(o.exc) \cap {"ConnectTimeout", "ConnectionError", "ProxyError"} # {}

\* the proxies of the list whose check, against the network's answers, returns True
RECURSIVE Passing(_)
Passing(ps) ==
  IF ps = <<>> THEN <<>>
  ELSE LET st == check_proxy(prog, Head(ps), net[Head(ps)])
       IN  (IF st.phase = "returned" /\ st.is_working THEN <<Head(ps)>> ELSE <<>>)
           \o Passing(Tail(ps))

\* at least one probe goes through p and every probe that does returns 200
ProbesAllOk(p) ==
  LET st == check_proxy(prog, p, net[p])
  IN  st.requests > 0 /\ \A i \in 1..st.requests : Ok(net[p][i])

\* every probe through p fails
ProbesAllFail(p) == \A i \in 1..NumUrls(prog) : ~Ok(net[p][i])

\* C1: a proxy whose probes all return 200 is returned as working by its
\* check, and once main has left the pool it is in working_proxies as often
\* as it is in the loaded list.
C1_AllOkIsWorking ==
  /\ \A r \in BagToSet(finished) :
       ProbesAllOk(r.proxy) => (~r.raised /\ r.is_working)
  /\ AfterPool =>
       \A p \in Range(proxies) :
         ProbesAllOk(p) =>
           CopiesIn(p, SeqToBag(working_proxies)) = CopiesIn(p, SeqToBag(proxies))

\* C2: no exception leaves a check function, a proxy whose probes all fail
\* gives a failed result for that proxy, and main never aborts the pool run.
C2_NoEscape ==
  /\ \A r \in BagToSet(finished) :
       /\ ~r.raised
       /\ ProbesAllFail(r.proxy) => ~r.is_working
  /\ pc # "aborting"
  /\ AfterPool => progress = total

\* C3: the number of checks executing at once never exceeds the pool size,
\* 30 in proxy.py and 10 in proxy2.py.
C3_BoundedPool ==
  /\ prog = "simple" => BagCardinality(running) <= 30
  /\ prog = "thorough" => BagCardinality(running) <= 10

\* C3 witness: proxy.py with all 30 workers busy and a submitted check waiting
C3_Witness ==
  /\ prog = "simple"
  /\ BagCardinality(running) = 30
  /\ queue # <<>>

\* C4: every loaded proxy is checked once and collected once: no proxy is
\* checked more often than it is loaded, the progress count is the number of
\* results collected, the working count never exceeds it, and once main has
\* left the pool every loaded proxy was checked and collected.
C4_EachOnce ==
  /\ checked \sqsubseteq SeqToBag(proxies)
  /\ collected \sqsubseteq checked
  /\ progress = BagCardinality(collected)
  /\ Len(working_proxies) <= progress
  /\ AfterPool =>
       /\ checked = SeqToBag(proxies)
       /\ collected = SeqToBag(proxies)
       /\ progress = Len(proxies)

\* C5: check_proxy_thorough returns True exactly when all three sites
\* returned 200; it probes all three sites whatever fails, so that on return
\* passed + failed = 3 and one error string is recorded per failure.
C5_ThoroughAll ==
  prog = "thorough" =>
    /\ ck_st.phase \in {"loop", "returned"} =>
         /\ ck_st.passed + ck_st.failed = ck_st.requests
         /\ Len(ck_st.errors) = ck_st.failed
    /\ ck_st.phase = "returned" =>
         /\ ck_st.is_working <=> \A i \in 1..Len(test_sites) : Ok(ck_out[i])
         /\ ck_st.requests = Len(test_sites)
         /\ ck_st.passed + ck_st.failed = 3
         /\ ck_st.passed = Cardinality({i \in 1..Len(test_sites) : Ok(ck_out[i])})

\* C5 witness: the first site failed, the later two were still probed and passed
C5_Witness ==
  /\ prog = "thorough"
  /\ ck_st.phase = "returned"
  /\ ~Ok(ck_out[1])
  /\ ck_st.passed = 2
  /\ ~ck_st.is_working

\* C6: check_proxy_simple reports a proxy failed only after all four test
\* URLs were tried.
C6_FailedAfterAllUrls ==
  (prog = "simple" /\ ck_st.phase = "returned" /\ ~ck_st.is_working)
    => ck_st.requests = Len(test_urls)

\* the first test URL that ends the loop of check_proxy_simple: the first
\* that returns 200 or raises a connection-class error, the last otherwise
RECURSIVE FirstStop(_)
FirstStop(i) ==
  IF i = Len(test_urls) \/ Ok(ck_out[i]) \/ ConnClass(ck_out[i]) THEN i ELSE FirstStop(i + 1)

C8_FinalMultiset ==
  AfterPool => SeqToBag(working_proxies) = SeqToBag(Passing(proxies))

\* C9: with an input file that exists, main never ends in an unhandled error.
C9_EndsNormally ==
  infile.exists => pc # "crashed"

\* C10: the output file changes only in the save step, after every result
\* was collected and with a proxy working; what it then holds is the working
\* list, one proxy per line; with no working proxy or no input file it is
\* never touched.
C10_OutputFrame ==
  /\ [][outfile' # outfile =>
          /\ pc = "save"
          /\ infile.exists
          /\ progress = Len(proxies)
          /\ collected = SeqToBag(proxies)
          /\ working_proxies # <<>>]_vars
  /\ [](pc \in {"prompt", "done"} /\ working_proxies # <<>> =>
          /\ outfile.exists
          /\ readlines(outfile.text, <<>>) =
               [i \in 1..Len(working_proxies) |-> working_proxies[i] \o <<NL>>]
          /\ load_proxies(outfile.text) = working_proxies)

\* C10 witness: a run that replaced an earlier output file by two working proxies
C10_Witness ==
  /\ pc = "done"
  /\ Len(working_proxies) >= 2
  /\ outfile = File(write_proxies(working_proxies))
  /\ outfile # File(OldOutput)

====
